---- MODULE Spec2Model ----
(***************************************************************************)
(* Mock HTTP handler registry of the vitest-next-practice repository: the  *)
(* MSW server of src/mocks/server.ts, its lifecycle hooks, the handlers    *)
(* the tests install with server.use, and the UserList component that      *)
(* issues GET /api/users and renders the outcome.                          *)
(*                                                                         *)
(* Strings of the source that are not ASCII are written in ASCII here:     *)
(* the UI prefix of an error line is ErrorPrefix, user names are romanised.*)
(***************************************************************************)
EXTENDS Naturals, Sequences, FiniteSets, TLC

VARIABLES
    suite,            \* which test module runs: "global" (handler pattern) or "local" (file-local server)
    phase,            \* position of the test runner: "init", "idle", "test", "afterEach", "closed"
    listening,        \* per server: is it intercepting requests (listen .. close)
    onUnhandledRequest, \* per server: the strategy given to listen ("unset" before listen)
    currentHandlers,  \* per server: the active handler list, first element consulted first
    requestCount,     \* per conditional-handler instance: its closure counter
    testNo,           \* number of tests started so far
    nUses,            \* server.use calls of the running test
    nRequests,        \* requests issued by the running test
    overrides,        \* handlers given to server.use by the running test, in call order
    setBeforeUse,     \* the handler list that was active just before the latest server.use
    comps,            \* UserList components mounted by the running test
    last,             \* the most recently intercepted request and how it was answered
    customData,       \* the payload the test passes to createCustomResponseHandler
    pending,          \* handler invocations of the running test or story, one per mounted component
    capturedRequest,  \* the test's let capturedRequest: the request its callback was given
    worker,           \* the browser worker of Storybook: started, strategy, handler list
    story,            \* the story the Storybook canvas shows and the one shown before it
    storyNo,          \* number of stories loaded so far
    form,             \* LoginForm: the text of its two fields and the messages it shows
    handleSubmit,     \* the mock given as onSubmit: the data of each call, in order
    dialog,           \* ConfirmDialog: who holds its open state, whether it is open, clicks so far
    handleConfirm,    \* the mock given as onConfirm: number of calls
    handleOpenChange, \* the mock given as onOpenChange: the argument of each call, in order
    button,           \* Button: its disabled prop and the clicks it received
    handleClick       \* the mock given as onClick: number of calls

asyncVars == <<pending, capturedRequest>>

storyVars == <<worker, story, storyNo>>

uiVars == <<form, handleSubmit, dialog, handleConfirm, handleOpenChange, button, handleClick>>

vars == <<suite, phase, listening, onUnhandledRequest, currentHandlers, requestCount,
          testNo, nUses, nRequests, overrides, setBeforeUse, comps, last, customData,
          pending, capturedRequest, worker, story, storyNo,
          form, handleSubmit, dialog, handleConfirm, handleOpenChange, button, handleClick>>

----------------------------------------------------------------------------
(* Bounds of the model *)

MaxTests == 2
MaxOverrides == 2
MaxRequests == 2
MaxRenders == 1
MaxPayloadLen == 2

----------------------------------------------------------------------------
(* Data *)

Servers == {"global", "local"}
Methods == {"GET", "POST"}
Paths == {"/api/users", "/api/posts"}
Requests == [method : Methods, url : Paths]

User(i, n, e) == [id |-> i, name |-> n, email |-> e]

mockUsers == << User(1, "Yamada Taro", "yamada@example.com"),
                User(2, "Suzuki Hanako", "suzuki@example.com") >>

mswMockUsers == << User(3, "Sato Jiro", "sato@example.com"),
                   User(4, "Tanaka Misaki", "tanaka@example.com"),
                   User(5, "Takahashi Kenichi", "takahashi@example.com") >>

customUser == User(999, "Custom User", "custom@example.com")

ErrorPrefix == "Error: "
FailedToFetchUsers == "Failed to fetch users"
FailedToFetch == "Failed to fetch"

----------------------------------------------------------------------------
(* JSON text of a user list: HttpResponse.json serialises, response.json() *)
(* parses. The text is a sequence of one-character or literal tokens.      *)

DigitChars == <<"0", "1", "2", "3", "4", "5", "6", "7", "8", "9">>

RECURSIVE NumToDigits(_)
NumToDigits(n) ==
    IF n < 10 THEN << DigitChars[n + 1] >>
    ELSE NumToDigits(n \div 10) \o << DigitChars[(n % 10) + 1] >>

DigitValue(c) == CHOOSE d \in 0..9 : DigitChars[d + 1] = c

IsDigit(c) == \E d \in 0..9 : DigitChars[d + 1] = c

RECURSIVE DigitsToNum(_, _)
DigitsToNum(ds, acc) ==
    IF ds = <<>> THEN acc
    ELSE DigitsToNum(Tail(ds), acc * 10 + DigitValue(Head(ds)))

Quoted(s) == << "\"", s, "\"" >>

StringifyUser(u) ==
    << "{", "\"", "id", "\"", ":" >> \o NumToDigits(u.id)
    \o << ",", "\"", "name", "\"", ":" >> \o Quoted(u.name)
    \o << ",", "\"", "email", "\"", ":" >> \o Quoted(u.email)
    \o << "}" >>

RECURSIVE StringifyItems(_)
StringifyItems(us) ==
    IF us = <<>> THEN <<>>
    ELSE IF Len(us) = 1 THEN StringifyUser(us[1])
    ELSE StringifyUser(us[1]) \o << "," >> \o StringifyItems(Tail(us))

JSONstringify(us) == << "[" >> \o StringifyItems(us) \o << "]" >>

\* Length of the run of digit tokens of toks that starts at position i.
RECURSIVE DigitRun(_, _)
DigitRun(toks, i) ==
    IF i <= Len(toks) /\ IsDigit(toks[i]) THEN 1 + DigitRun(toks, i + 1) ELSE 0

\* Parse the objects of toks from position i on; the text is one that
\* JSONstringify produced, so each object has the three keys in order.
RECURSIVE ParseItems(_, _)
ParseItems(toks, i) ==
    IF toks[i] = "]" THEN <<>>
    ELSE IF toks[i] = "," THEN ParseItems(toks, i + 1)
    ELSE LET n == DigitRun(toks, i + 5)
             idv == DigitsToNum(SubSeq(toks, i + 5, i + 4 + n), 0)
             j == i + 5 + n          \* the "," after the id
             nm == toks[j + 6]
             k == j + 8              \* the "," after the name
             em == toks[k + 6]
         IN  << User(idv, nm, em) >> \o ParseItems(toks, k + 9)

JSONparse(toks) == ParseItems(toks, 2)

----------------------------------------------------------------------------
(* Response descriptors *)

NoStatus == 0

HttpResponseJson(data) == [kind |-> "response", status |-> 200, body |-> JSONstringify(data)]

HttpResponseStatus(code) == [kind |-> "response", status |-> code, body |-> <<>>]

HttpResponseError == [kind |-> "error", status |-> NoStatus, body |-> <<>>]

NoResponse == [kind |-> "none", status |-> NoStatus, body |-> <<>>]

\* The value of a variable the test declared and nothing assigned yet.
null == [method |-> "null", url |-> <<>>]

Ok(resp) == resp.kind = "response" /\ resp.status >= 200 /\ resp.status <= 299

----------------------------------------------------------------------------
(* Handlers: every handler of the repository is http.get('/api/users', resolver). *)

Handler(n, i) == [name |-> n, method |-> "GET", url |-> "/api/users", inst |-> i]

handlers == << Handler("default", "none") >>

localHandlers == << Handler("localDefault", "none") >>

\* Faulty variant of InitialHandlers: every server is set up with the file-local list.
InitialHandlers_local(s) == localHandlers

InitialHandlers(s) == IF s = "global" THEN handlers ELSE localHandlers

Instances == {"shared", "fresh"}

\* specialHandlers.conditionalResponse: one handler value for all tests, its
\* counter lives with it.
sharedConditional == Handler("conditionalResponse", "shared")

\* The conditional handler a test builds around its own let requestCount = 0.
freshConditional == Handler("conditionalResponse", "fresh")

\* The handler values a test of each suite passes to server.use. Each shape
\* of handler (fixed success, fixed failure, transport failure, conditional)
\* is listed with the suite whose tests install it; a shape that both suites
\* use with the same resolver is listed once.
GlobalOverrides ==
    { Handler("serverError", "none"), Handler("serviceUnavailable", "none"),
      Handler("emptyResponse", "none"), Handler("custom", "none"),
      sharedConditional }

LocalOverrides ==
    { Handler("networkError", "none"), Handler("notFound", "none"),
      freshConditional }

Overrides(s) == IF s = "global" THEN GlobalOverrides ELSE LocalOverrides

(* Resolvers: the response each handler produces. *)

defaultResolver == HttpResponseJson(mockUsers)

localDefaultResolver == HttpResponseJson(mswMockUsers)

\* Faulty variant of networkErrorResolver: the failure is sent as an HTTP status.
networkErrorResolver_status == HttpResponseStatus(500)

networkErrorResolver == HttpResponseError

\* Faulty variant of serverErrorResolver: the failure is sent as another status.
serverErrorResolver_notFound == HttpResponseStatus(404)

serverErrorResolver == HttpResponseStatus(500)

notFoundResolver == HttpResponseStatus(404)

serviceUnavailableResolver == HttpResponseStatus(503)

\* Faulty variant of emptyResponseResolver: the handler sends the usual payload.
emptyResponseResolver_users == HttpResponseJson(mswMockUsers)

emptyResponseResolver == HttpResponseJson(<<>>)

\* Faulty variant of customResolver: the entries are sent in reverse order.
customResolver_reversed(data) ==
    HttpResponseJson([i \in 1..Len(data) |-> data[Len(data) + 1 - i]])

customResolver(data) == HttpResponseJson(data)

\* Faulty variant of conditionalResolver: the counter is compared before it is incremented.
conditionalResolver_pre(count) ==
    IF count - 1 = 1 THEN HttpResponseStatus(503) ELSE HttpResponseJson(mswMockUsers)

\* count is the closure counter after this invocation's requestCount++.
conditionalResolver(count) ==
    IF count = 1 THEN HttpResponseStatus(503) ELSE HttpResponseJson(mswMockUsers)

\* Faulty variant of delayedResolver: the delayed answer is a failure.
delayedResolver_unavailable == HttpResponseStatus(503)

\* The response of a delaying handler, returned once its delay is over.
delayedResolver == HttpResponseJson(mswMockUsers)

\* The response of the request-capture handler, returned after its callback.
captureResolver == HttpResponseJson(mswMockUsers)

\* The return statement behind await delay('infinite').
infiniteDelayResolver == HttpResponseJson(mockUsers)

Resolve(h, count, data) ==
    CASE h.name = "default" -> defaultResolver
      [] h.name = "localDefault" -> localDefaultResolver
      [] h.name = "networkError" -> networkErrorResolver
      [] h.name = "serverError" -> serverErrorResolver
      [] h.name = "notFound" -> notFoundResolver
      [] h.name = "serviceUnavailable" -> serviceUnavailableResolver
      [] h.name = "emptyResponse" -> emptyResponseResolver
      [] h.name = "custom" -> customResolver(data)
      [] h.name = "conditionalResponse" -> conditionalResolver(count)
      [] h.name = "delayedResponse" -> delayedResolver
      [] h.name = "customDelayedResponse" -> delayedResolver
      [] h.name = "requestCapture" -> captureResolver
      [] h.name = "infiniteDelay" -> infiniteDelayResolver

----------------------------------------------------------------------------
(* Request resolution of the interception layer *)

Matches(h, req) == h.method = req.method /\ h.url = req.url

\* Index of the handler that answers req: the list is scanned from its head
\* and the scan stops at the first handler that matches; 0 when none does.
RECURSIVE ScanFrom(_, _, _)
ScanFrom(list, req, i) ==
    IF i > Len(list) THEN 0
    ELSE IF Matches(list[i], req) THEN i
    ELSE ScanFrom(list, req, i + 1)

\* Faulty variant of FirstMatch: the scan keeps the last handler that matches.
RECURSIVE ScanBack(_, _, _)
ScanBack(list, req, i) ==
    IF i = 0 THEN 0
    ELSE IF Matches(list[i], req) THEN i
    ELSE ScanBack(list, req, i - 1)

FirstMatch_last(list, req) == ScanBack(list, req, Len(list))

FirstMatch(list, req) == ScanFrom(list, req, 1)

\* Faulty variant of serverOptions: unmatched requests go to the network.
serverOptions_bypass == [onUnhandledRequest |-> "bypass"]

serverOptions == [onUnhandledRequest |-> "error"]

ActiveServer == suite

\* What becomes of a request that no handler matched, by strategy.
Unhandled(strategy) ==
    IF strategy = "error"
    THEN [reported |-> TRUE, passthrough |-> FALSE, resp |-> HttpResponseError]
    ELSE [reported |-> (strategy = "warn"), passthrough |-> TRUE, resp |-> NoResponse]

NoRequest ==
    [req |-> [method |-> "none", url |-> "none"], set |-> <<>>, by |-> 0,
     handler |-> Handler("none", "none"), count |-> 0, nOv |-> 0,
     intercepted |-> FALSE, reported |-> FALSE, passthrough |-> FALSE,
     resp |-> NoResponse]

\* The record of one request issued while the handler list is set.
Intercept(req) ==
    LET s == ActiveServer
        set == currentHandlers[s]
        i == FirstMatch(set, req)
    IN  IF ~listening[s]
        THEN [NoRequest EXCEPT !.req = req, !.passthrough = TRUE]
        ELSE IF i = 0
        THEN LET u == Unhandled(onUnhandledRequest[s])
             IN  [NoRequest EXCEPT !.req = req, !.set = set, !.nOv = nUses,
                                   !.intercepted = TRUE, !.reported = u.reported,
                                   !.passthrough = u.passthrough, !.resp = u.resp]
        ELSE LET h == set[i]
                 c == IF h.inst \in Instances THEN requestCount[h.inst] + 1 ELSE 0
             IN  [NoRequest EXCEPT !.req = req, !.set = set, !.by = i, !.handler = h,
                                   !.count = c, !.nOv = nUses, !.intercepted = TRUE,
                                   !.resp = Resolve(h, c, customData)]

\* Faulty variant of CountAfter: the handler is invoked a second time for the
\* same request, as it is when the sender retries.
CountAfter_twice(r) ==
    IF r.by > 0 /\ r.handler.inst \in Instances
    THEN [requestCount EXCEPT ![r.handler.inst] = r.count + 1]
    ELSE requestCount

\* The closure counters after the request recorded in r was answered.
CountAfter(r) ==
    IF r.by > 0 /\ r.handler.inst \in Instances
    THEN [requestCount EXCEPT ![r.handler.inst] = r.count]
    ELSE requestCount

----------------------------------------------------------------------------
(* The UserList component: mounted in the loading state with a pending     *)
(* fetch of /api/users; the delivered outcome puts it in success or error. *)

\* Faulty variant of SkeletonCount: the loading view lacks one placeholder.
SkeletonCount_two == 3 - 1

SkeletonCount == 3

Mounted(r) ==
    [state |-> "loading", resp |-> r.resp, handler |-> r.handler.name,
     users |-> <<>>, error |-> ""]

\* fetch rejects when the outcome is a transport failure; otherwise the
\* component throws on a response that is not ok, else parses the body.
fetchUsers(c) ==
    IF c.resp.kind # "response"
    THEN [c EXCEPT !.state = "error", !.error = FailedToFetch]
    ELSE IF ~Ok(c.resp)
    THEN [c EXCEPT !.state = "error", !.error = FailedToFetchUsers]
    ELSE [c EXCEPT !.state = "success", !.users = JSONparse(c.resp.body)]

Skeletons(c) == IF c.state = "loading" THEN SkeletonCount ELSE 0

\* The error line of the component: prefix and message, empty when none.
ErrorText(c) == IF c.state = "error" THEN << ErrorPrefix, c.error >> ELSE <<>>

----------------------------------------------------------------------------
(* Payloads a test may pass to createCustomResponseHandler *)

PayloadUsers == { customUser, mswMockUsers[1] }

RECURSIVE SeqsUpTo(_, _)
SeqsUpTo(S, n) ==
    IF n = 0 THEN { <<>> }
    ELSE LET shorter == SeqsUpTo(S, n - 1)
         IN  shorter \cup { Append(q, x) : q \in { t \in shorter : Len(t) = n - 1 }, x \in S }

Payloads == SeqsUpTo(PayloadUsers, MaxPayloadLen)

----------------------------------------------------------------------------
(* State after the modules are loaded: setupServer(...handlers) has run,   *)
(* nothing listens yet.                                                    *)

InitCommon ==
    /\ suite \in Servers
    /\ phase = "init"
    /\ listening = [s \in Servers |-> FALSE]
    /\ onUnhandledRequest = [s \in Servers |-> "unset"]
    /\ currentHandlers = [s \in Servers |-> InitialHandlers(s)]
    /\ requestCount = [i \in Instances |-> 0]
    /\ testNo = 0
    /\ nUses = 0
    /\ nRequests = 0
    /\ overrides = <<>>
    /\ setBeforeUse = <<>>
    /\ comps = <<>>
    /\ last = NoRequest
    /\ pending = <<>>
    /\ capturedRequest = null
    /\ worker = [started |-> FALSE, onUnhandledRequest |-> "unset", handlers |-> <<>>,
                 env |-> "none"]
    /\ story = [name |-> "none", after |-> "none"]
    /\ storyNo = 0
    /\ form = [mounted |-> FALSE, email |-> <<>>, password |-> <<>>,
               errors |-> [email |-> "", password |-> ""], submits |-> 0,
               cleared |-> {}]
    /\ handleSubmit = <<>>
    /\ dialog = [parent |-> "none", open |-> FALSE, clicks |-> 0, clicked |-> "none"]
    /\ handleConfirm = 0
    /\ handleOpenChange = <<>>
    /\ button = [mounted |-> FALSE, disabled |-> FALSE, clicks |-> 0]
    /\ handleClick = 0

Init ==
    /\ InitCommon
    /\ customData = << customUser >>

----------------------------------------------------------------------------
(* Lifecycle hooks *)

\* Faulty variant of listen: every server of the process starts to intercept.
listen_all(l, s) == [x \in Servers |-> TRUE]

\* Faulty variant of listen: the hook does not start the server.
listen_none(l, s) == l

\* The listening servers after server.listen() of server s.
listen(l, s) == [l EXCEPT ![s] = TRUE]

\* The listening servers after server.close() of server s.
close(l, s) == [l EXCEPT ![s] = FALSE]

\* beforeAll(() => server.listen(serverOptions))
Listen ==
    /\ phase = "init"
    /\ listening' = listen(listening, ActiveServer)
    /\ onUnhandledRequest' =
           [onUnhandledRequest EXCEPT ![ActiveServer] = serverOptions.onUnhandledRequest]
    /\ phase' = "idle"
    /\ UNCHANGED <<suite, currentHandlers, requestCount, testNo, nUses, nRequests,
                   overrides, setBeforeUse, comps, last, customData>>
    /\ UNCHANGED <<asyncVars, storyVars>>
    /\ UNCHANGED uiVars

\* The runner starts the next it(...) of the file. A test that builds its own
\* conditional handler declares its counter first (let requestCount = 0).
StartTest ==
    /\ phase = "idle"
    /\ testNo < MaxTests
    /\ phase' = "test"
    /\ testNo' = testNo + 1
    /\ requestCount' = [requestCount EXCEPT !["fresh"] = 0]
    /\ nUses' = 0
    /\ setBeforeUse' = <<>>
    /\ UNCHANGED <<suite, listening, onUnhandledRequest, currentHandlers, nRequests,
                   overrides, comps, last, customData>>
    /\ UNCHANGED <<asyncVars, storyVars>>
    /\ UNCHANGED uiVars

\* Faulty variant of use: the override goes behind the active list.
use_append(list, h) == list \o << h >>

\* Faulty variant of use: the first override of a test stays in front, a
\* later one goes right behind it.
use_behindFirst(list, h) ==
    IF nUses = 0 THEN << h >> \o list ELSE << list[1], h >> \o Tail(list)

\* The handler list after server.use(h): h goes in front of the active list.
use(list, h) == << h >> \o list

\* server.use(h) in the body of the running test.
Use(h) ==
    /\ phase = "test"
    /\ nUses < MaxOverrides
    /\ setBeforeUse' = currentHandlers[ActiveServer]
    /\ currentHandlers' =
           [currentHandlers EXCEPT ![ActiveServer] = use(currentHandlers[ActiveServer], h)]
    /\ nUses' = nUses + 1
    /\ overrides' = Append(overrides, h)
    /\ UNCHANGED <<suite, phase, listening, onUnhandledRequest, requestCount, testNo,
                   nRequests, comps, last, customData>>
    /\ UNCHANGED <<asyncVars, storyVars>>
    /\ UNCHANGED uiVars

\* render(<UserList />): the component mounts and its effect fetches /api/users.
Render ==
    /\ phase = "test"
    /\ nRequests < MaxRequests
    /\ Len(comps) < MaxRenders
    /\ LET r == Intercept([method |-> "GET", url |-> "/api/users"])
       IN  /\ last' = r
           /\ requestCount' = CountAfter(r)
           /\ comps' = Append(comps, Mounted(r))
    /\ nRequests' = nRequests + 1
    /\ UNCHANGED <<suite, phase, listening, onUnhandledRequest, currentHandlers, testNo,
                   nUses, overrides, setBeforeUse, customData>>
    /\ UNCHANGED <<asyncVars, storyVars>>
    /\ UNCHANGED uiVars

\* Any other request the code under test sends while the test runs.
Fetch(req) ==
    /\ phase = "test"
    /\ nRequests < MaxRequests
    /\ LET r == Intercept(req)
       IN  /\ last' = r
           /\ requestCount' = CountAfter(r)
    /\ nRequests' = nRequests + 1
    /\ UNCHANGED <<suite, phase, listening, onUnhandledRequest, currentHandlers, testNo,
                   nUses, overrides, setBeforeUse, comps, customData>>
    /\ UNCHANGED <<asyncVars, storyVars>>
    /\ UNCHANGED uiVars

\* The pending fetch of the i-th mounted component settles.
Deliver(i) ==
    /\ phase = "test"
    /\ i \in 1..Len(comps)
    /\ comps[i].state = "loading"
    /\ comps' = [comps EXCEPT ![i] = fetchUsers(comps[i])]
    /\ UNCHANGED <<suite, phase, listening, onUnhandledRequest, currentHandlers,
                   requestCount, testNo, nUses, nRequests, overrides, setBeforeUse,
                   last, customData>>
    /\ UNCHANGED <<asyncVars, storyVars>>
    /\ UNCHANGED uiVars

\* The body of the running test returns (or times out).
FinishTest ==
    /\ phase = "test"
    /\ phase' = "afterEach"
    /\ UNCHANGED <<suite, listening, onUnhandledRequest, currentHandlers, requestCount,
                   testNo, nUses, nRequests, overrides, setBeforeUse, comps, last,
                   customData>>
    /\ UNCHANGED <<asyncVars, storyVars>>
    /\ UNCHANGED uiVars

\* Faulty variant of resetHandlers: the hook leaves the handler list as it is.
resetHandlers_keep(s) == currentHandlers[s]

\* Faulty variant of resetHandlers: only the latest server.use is undone.
resetHandlers_undoLast(s) == IF nUses > 0 THEN setBeforeUse ELSE currentHandlers[s]

\* The handler list after server.resetHandlers(): the list given to setupServer.
resetHandlers(s) == InitialHandlers(s)

\* Faulty variant of resetCounters: the hook also zeroes every closure counter.
resetCounters_zero(counts) == [i \in Instances |-> 0]

\* The closure counters after server.resetHandlers(): it does not touch them.
resetCounters(counts) == counts

\* afterEach(() => server.resetHandlers()); the rendered components are unmounted
\* and the running test's request records and locals end with it. nUses and
\* setBeforeUse stay until the next test starts.
AfterEach ==
    /\ phase = "afterEach"
    /\ currentHandlers' =
           [currentHandlers EXCEPT ![ActiveServer] = resetHandlers(ActiveServer)]
    /\ requestCount' = resetCounters(requestCount)
    /\ comps' = <<>>
    /\ nRequests' = 0
    /\ overrides' = <<>>
    /\ last' = NoRequest
    /\ phase' = "idle"
    /\ pending' = <<>>
    /\ capturedRequest' = null
    /\ UNCHANGED <<suite, listening, onUnhandledRequest, testNo, nUses, setBeforeUse,
                   customData>>
    /\ UNCHANGED storyVars
    /\ UNCHANGED uiVars

\* afterAll(() => server.close())
Close ==
    /\ phase = "idle"
    /\ testNo > 0
    /\ listening' = close(listening, ActiveServer)
    /\ phase' = "closed"
    /\ UNCHANGED <<suite, onUnhandledRequest, currentHandlers, requestCount, testNo,
                   nUses, nRequests, overrides, setBeforeUse, comps, last, customData>>
    /\ UNCHANGED <<asyncVars, storyVars>>
    /\ UNCHANGED uiVars

UseAny == \E h \in Overrides(suite) : Use(h)

FetchAny == \E req \in Requests : Fetch(req)

DeliverAny == \E i \in 1..MaxRenders : Deliver(i)

Next ==
    \/ Listen
    \/ StartTest
    \/ UseAny
    \/ Render
    \/ FetchAny
    \/ DeliverAny
    \/ FinishTest
    \/ AfterEach
    \/ Close

Spec == Init /\ [][Next]_vars

(* The custom-response test with its payload drawn from Payloads. *)

InitRoundTrip ==
    /\ InitCommon
    /\ customData \in Payloads

UseCustom == suite = "global" /\ Use(Handler("custom", "none"))

NextRoundTrip ==
    \/ Listen
    \/ StartTest
    \/ UseCustom
    \/ Render
    \/ DeliverAny
    \/ FinishTest
    \/ AfterEach
    \/ Close

SpecRoundTrip == InitRoundTrip /\ [][NextRoundTrip]_vars

----------------------------------------------------------------------------
(* Handler invocations that take time: a resolver that awaits a delay, and *)
(* the request-capture resolver that calls the test's callback first. Time *)
(* is counted per invocation, in steps of TickMs milliseconds.             *)

TickMs == 500

MaxTicks == 3

delay(ms) == [finite |-> TRUE, ms |-> ms]

\* Faulty variant of infiniteDelay: the delay ends after one second.
infiniteDelay_second == [finite |-> TRUE, ms |-> 1000]

\* delay('infinite'): the resolver never gets past its await.
infiniteDelay == [finite |-> FALSE, ms |-> 0]

\* The delay each handler awaits before it returns its response.
delayOf(h) ==
    CASE h.name = "delayedResponse" -> delay(1000)
      [] h.name = "customDelayedResponse" -> delay(500)
      [] h.name = "infiniteDelay" -> infiniteDelay
      [] OTHER -> delay(0)

\* The Request object a resolver is given: the URL is absolute.
RequestObject(req) == [method |-> req.method, url |-> << "http://localhost", req.url >>]

\* expect(url).toContain(part)
toContain(url, part) == \E k \in 1..Len(url) : url[k] = part

\* A handler invocation that has just begun for request req.
Invocation(h, req) ==
    [handler |-> h.name, request |-> RequestObject(req), delay |-> delayOf(h),
     elapsed |-> 0, stage |-> "running", calledBack |-> FALSE]

\* Faulty variant of Due: the timer of the delay fires at once.
Due_atOnce(p) == p.delay.finite

\* The timer of the invocation's delay has fired.
Due(p) == p.delay.finite /\ p.elapsed >= p.delay.ms

\* Faulty variant of callbackFirst: the response is returned without the callback.
callbackFirst_skip(p) == TRUE

\* The resolver's statements run in order: the callback, then the return.
callbackFirst(p) == p.handler = "requestCapture" => p.calledBack

\* The timeout the test gives waitFor for this invocation's outcome.
waitForTimeout(p) == IF p.delay.ms >= 1000 THEN 2000 ELSE 1000

\* await waitFor(...) returns: the outcome is there, or the timeout is over.
waitFor(p) == p.stage = "done" \/ p.elapsed >= waitForTimeout(p)

\* Faulty variant of awaited: the test goes on without awaiting the outcome.
awaited_skip(ps) == TRUE

\* Every outcome the test awaited has arrived.
awaited(ps) == \A i \in 1..Len(ps) : ps[i].stage = "done"

AsyncOverrides(s) ==
    IF s = "global"
    THEN { Handler("delayedResponse", "none"), Handler("customDelayedResponse", "none"),
           Handler("requestCapture", "none") }
    ELSE { Handler("delayedResponse", "none"), Handler("requestCapture", "none") }

\* server.use(h) before the test renders, or after it awaited an outcome.
AsyncUse(h) == awaited(pending) /\ Use(h)

\* render(<UserList />) with the handler invocation as a process of its own.
RenderAsync ==
    /\ phase = "test"
    /\ nRequests < MaxRequests
    /\ awaited(pending)
    /\ LET req == [method |-> "GET", url |-> "/api/users"]
           r == Intercept(req)
       IN  /\ last' = r
           /\ requestCount' = CountAfter(r)
           /\ comps' = Append(comps, Mounted(r))
           /\ pending' = Append(pending, Invocation(r.handler, req))
    /\ nRequests' = nRequests + 1
    /\ UNCHANGED <<suite, phase, listening, onUnhandledRequest, currentHandlers, testNo,
                   nUses, overrides, setBeforeUse, customData, capturedRequest>>
    /\ UNCHANGED storyVars
    /\ UNCHANGED uiVars

\* The request-capture resolver calls the callback with the request.
Callback(i) ==
    /\ i \in 1..Len(pending)
    /\ pending[i].stage = "running"
    /\ pending[i].handler = "requestCapture"
    /\ ~pending[i].calledBack
    /\ capturedRequest' = pending[i].request
    /\ pending' = [pending EXCEPT ![i].calledBack = TRUE]
    /\ UNCHANGED <<suite, phase, listening, onUnhandledRequest, currentHandlers,
                   requestCount, testNo, nUses, nRequests, overrides, setBeforeUse,
                   comps, last, customData>>
    /\ UNCHANGED storyVars
    /\ UNCHANGED uiVars

\* TickMs milliseconds pass while an invocation is in progress. A timer
\* that is due fires before the clock moves on.
Tick ==
    /\ \E i \in 1..Len(pending) : pending[i].stage = "running"
    /\ \A i \in 1..Len(pending) :
          pending[i].stage = "running" =>
              (~Due(pending[i]) /\ pending[i].elapsed < MaxTicks * TickMs)
    /\ pending' = [i \in 1..Len(pending) |->
                      IF pending[i].stage = "running"
                      THEN [pending[i] EXCEPT !.elapsed = @ + TickMs]
                      ELSE pending[i]]
    /\ UNCHANGED <<suite, phase, listening, onUnhandledRequest, currentHandlers,
                   requestCount, testNo, nUses, nRequests, overrides, setBeforeUse,
                   comps, last, customData, capturedRequest>>
    /\ UNCHANGED storyVars
    /\ UNCHANGED uiVars

\* Faulty variant of returned: the response is looked up in the handler list
\* that is active when the invocation ends.
returned_current(i) == Intercept([method |-> "GET", url |-> "/api/users"]).resp

\* The response the i-th invocation returns: that of the resolver that was
\* invoked when the request was matched.
returned(i) == comps[i].resp

\* The resolver returns its response and the component's fetch settles.
Respond(i) ==
    /\ i \in 1..Len(pending)
    /\ pending[i].stage = "running"
    /\ Due(pending[i])
    /\ callbackFirst(pending[i])
    /\ pending' = [pending EXCEPT ![i].stage = "done"]
    /\ comps' = [comps EXCEPT ![i] = fetchUsers([comps[i] EXCEPT !.resp = returned(i)])]
    /\ UNCHANGED <<suite, phase, listening, onUnhandledRequest, currentHandlers,
                   requestCount, testNo, nUses, nRequests, overrides, setBeforeUse,
                   last, customData, capturedRequest>>
    /\ UNCHANGED storyVars
    /\ UNCHANGED uiVars

\* The body of the test returns once its await waitFor(...) has returned.
AsyncFinishTest ==
    /\ \A i \in 1..Len(pending) : waitFor(pending[i])
    /\ FinishTest

AsyncUseAny == \E h \in AsyncOverrides(suite) : AsyncUse(h)

CallbackAny == \E i \in 1..MaxRequests : Callback(i)

RespondAny == \E i \in 1..MaxRequests : Respond(i)

NextAsync ==
    \/ Listen
    \/ StartTest
    \/ AsyncUseAny
    \/ RenderAsync
    \/ CallbackAny
    \/ Tick
    \/ RespondAny
    \/ AsyncFinishTest
    \/ AfterEach
    \/ Close

SpecAsync == Init /\ [][NextAsync]_vars

(* The custom-delay test on its own: the only override is the 500 ms handler. *)

UseCustomDelayed ==
    suite = "global" /\ AsyncUse(Handler("customDelayedResponse", "none"))

NextDelayed ==
    \/ Listen
    \/ StartTest
    \/ UseCustomDelayed
    \/ RenderAsync
    \/ Tick
    \/ RespondAny
    \/ AsyncFinishTest
    \/ AfterEach
    \/ Close

SpecDelayed == Init /\ [][NextDelayed]_vars

\* Timers fire and settled promises are delivered: the event loop leaves
\* neither waiting for ever.
SpecDelayedFair == SpecDelayed /\ WF_vars(Tick) /\ WF_vars(RespondAny)

(* A reset of the handlers while a handler invocation is in progress. *)

\* server.resetHandlers() while an invocation has not returned yet: the list
\* is replaced, the invocation and the component that waits for it are not
\* touched.
ResetPending ==
    /\ phase = "test"
    /\ ~awaited(pending)
    /\ currentHandlers[ActiveServer] # resetHandlers(ActiveServer)
    /\ currentHandlers' =
           [currentHandlers EXCEPT ![ActiveServer] = resetHandlers(ActiveServer)]
    /\ requestCount' = resetCounters(requestCount)
    /\ UNCHANGED <<suite, phase, listening, onUnhandledRequest, testNo, nUses, nRequests,
                   overrides, setBeforeUse, comps, last, customData>>
    /\ UNCHANGED <<asyncVars, storyVars>>
    /\ UNCHANGED uiVars

NextReset ==
    \/ Listen
    \/ StartTest
    \/ AsyncUseAny
    \/ RenderAsync
    \/ CallbackAny
    \/ Tick
    \/ RespondAny
    \/ ResetPending
    \/ AsyncFinishTest
    \/ AfterEach
    \/ Close

SpecReset == Init /\ [][NextReset]_vars

----------------------------------------------------------------------------
(* Storybook: the preview starts the browser worker once; the loader of    *)
(* every story installs the handlers of the story's msw parameter.         *)

MaxStories == 3

\* "WithoutMsw" stands for a story that declares no msw parameter and whose
\* component requests /api/users; the others are stories of UserList.
Stories == {"Default", "Loading", "LoadingWithDelay", "Error", "WithoutMsw"}

undefined == [defined |-> FALSE, handlers |-> <<>>]

\* parameters.msw.handlers of the preview.
previewParameters == [defined |-> TRUE, handlers |-> handlers]

\* parameters.msw.handlers of each story.
storyParameters(s) ==
    CASE s = "Default" -> [defined |-> TRUE, handlers |-> handlers]
      [] s = "Loading" -> [defined |-> TRUE, handlers |-> << Handler("infiniteDelay", "none") >>]
      [] s = "LoadingWithDelay" ->
             [defined |-> TRUE, handlers |-> << Handler("delayedResponse", "none") >>]
      [] s = "Error" -> [defined |-> TRUE, handlers |-> << Handler("serverError", "none") >>]
      [] OTHER -> undefined

\* Faulty variant of combineParameters: the story's own parameter is ignored.
combineParameters_preview(preview, own) == preview.handlers

\* The parameter a story is loaded with: its own value replaces the preview's.
combineParameters(preview, own) == IF own.defined THEN own.handlers ELSE preview.handlers

\* Faulty variant of workerOptions: the preview reports unmatched requests.
workerOptions_error == [onUnhandledRequest |-> "error"]

\* initialize({ onUnhandledRequest: 'bypass' }) with no initial handlers.
workerOptions == [onUnhandledRequest |-> "bypass"]

\* The handlers the worker is set up with: initialize passes none.
initialWorkerHandlers == <<>>

\* The worker's list after mswLoader: reset to the initial list, whatever
\* list it was, then the story's handlers are put in front.
applyRequestHandlers(list, hs) == hs \o initialWorkerHandlers

\* The record of one request issued while a story is shown.
InterceptWorker(req) ==
    LET set == worker.handlers
        i == FirstMatch(set, req)
    IN  IF ~worker.started
        THEN [NoRequest EXCEPT !.req = req, !.passthrough = TRUE]
        ELSE IF i = 0
        THEN LET u == Unhandled(worker.onUnhandledRequest)
             IN  [NoRequest EXCEPT !.req = req, !.set = set, !.intercepted = TRUE,
                                   !.reported = u.reported,
                                   !.passthrough = u.passthrough, !.resp = u.resp]
        ELSE [NoRequest EXCEPT !.req = req, !.set = set, !.by = i, !.handler = set[i],
                               !.intercepted = TRUE,
                               !.resp = Resolve(set[i], 0, customData)]

InitStorybook == Init /\ suite = "global"

\* initialize(...) at the top of the preview module.
initialize ==
    /\ ~worker.started
    /\ worker' = [started |-> TRUE, onUnhandledRequest |-> workerOptions.onUnhandledRequest,
                  handlers |-> initialWorkerHandlers, env |-> "preview"]
    /\ UNCHANGED <<suite, phase, listening, onUnhandledRequest, currentHandlers,
                   requestCount, testNo, nUses, nRequests, overrides, setBeforeUse,
                   comps, last, customData, pending, capturedRequest, story, storyNo>>
    /\ UNCHANGED uiVars

\* Storybook shows story s: the previous story is unmounted and mswLoader
\* runs with the parameters of s.
mswLoader(s) ==
    /\ worker.started
    /\ worker.env = "preview"
    /\ storyNo < MaxStories
    /\ worker' = [worker EXCEPT !.handlers =
                      applyRequestHandlers(worker.handlers,
                                           combineParameters(previewParameters,
                                                             storyParameters(s)))]
    /\ story' = [name |-> s, after |-> story.name]
    /\ storyNo' = storyNo + 1
    /\ comps' = <<>>
    /\ pending' = <<>>
    /\ last' = NoRequest
    /\ UNCHANGED <<suite, phase, listening, onUnhandledRequest, currentHandlers,
                   requestCount, testNo, nUses, nRequests, overrides, setBeforeUse,
                   customData, capturedRequest>>
    /\ UNCHANGED uiVars

\* The story renders: its component mounts and requests /api/users.
RenderStory ==
    /\ story.name # "none"
    /\ comps = <<>>
    /\ LET req == [method |-> "GET", url |-> "/api/users"]
           r == InterceptWorker(req)
       IN  /\ last' = r
           /\ comps' = << Mounted(r) >>
           /\ pending' = << Invocation(r.handler, req) >>
    /\ UNCHANGED <<suite, phase, listening, onUnhandledRequest, currentHandlers,
                   requestCount, testNo, nUses, nRequests, overrides, setBeforeUse,
                   customData, capturedRequest>>
    /\ UNCHANGED storyVars
    /\ UNCHANGED uiVars

mswLoaderAny == \E s \in Stories : mswLoader(s)

NextStorybook ==
    \/ initialize
    \/ mswLoaderAny
    \/ RenderStory
    \/ Tick
    \/ RespondAny

SpecStorybook == InitStorybook /\ [][NextStorybook]_vars

----------------------------------------------------------------------------
(* The worker in the browser: started by the Storybook preview, or by      *)
(* enableMocking in development with the handlers of src/mocks/browser.ts. *)

\* workerOptions of src/mocks/browser.ts.
browserWorkerOptions == [onUnhandledRequest |-> "bypass"]

\* developmentHandlers is defined in src/mocks/handlers.ts: the lists it may
\* be, none or a handler of GET /api/users.
DevelopmentHandlers == { <<>>, << Handler("delayedResponse", "none") >> }

\* setupWorker(...handlers, ...developmentHandlers)
setupWorker(dev) == handlers \o dev

\* enableMocking(): worker.start(workerOptions)
start(dev) ==
    /\ ~worker.started
    /\ worker' = [started |-> TRUE,
                  onUnhandledRequest |-> browserWorkerOptions.onUnhandledRequest,
                  handlers |-> setupWorker(dev), env |-> "browser"]
    /\ UNCHANGED <<suite, phase, listening, onUnhandledRequest, currentHandlers,
                   requestCount, testNo, nUses, nRequests, overrides, setBeforeUse,
                   comps, last, customData, pending, capturedRequest, story, storyNo>>
    /\ UNCHANGED uiVars

\* A request of the page while the worker runs; last records what the
\* worker makes of it.
WorkerFetch(req) ==
    /\ worker.started
    /\ worker.env = "preview" => story.name # "none"
    /\ last' = InterceptWorker(req)
    /\ UNCHANGED <<suite, phase, listening, onUnhandledRequest, currentHandlers,
                   requestCount, testNo, nUses, nRequests, overrides, setBeforeUse,
                   comps, customData>>
    /\ UNCHANGED <<asyncVars, storyVars>>
    /\ UNCHANGED uiVars

startAny == \E dev \in DevelopmentHandlers : start(dev)

WorkerFetchAny == \E req \in Requests : WorkerFetch(req)

InitWorker == Init /\ suite = "global"

NextWorker ==
    \/ initialize
    \/ startAny
    \/ mswLoaderAny
    \/ WorkerFetchAny

SpecWorker == InitWorker /\ [][NextWorker]_vars

----------------------------------------------------------------------------
(* LoginForm: two text fields validated by formSchema on every change and  *)
(* on submit; onSubmit is called with the values when both are valid. A    *)
(* form records the fields cleared since the last rejected submission. A   *)
(* text is the sequence of the pieces typed into the field: an e-mail text *)
(* is made of words and the signs "@" and ".", a password of characters.   *)

MaxSubmits == 2

MaxEmailLen == 6

MaxPasswordLen == 11

EmailMessage == "Enter a valid e-mail address"

PasswordMessage == "The password must have at least 8 characters"

\* The texts a test types into the e-mail field: 'invalid', 'test@example.com'.
TypedEmails == { << "invalid" >>, << "test", "@", "example", ".", "com" >> }

\* The texts a test types into the password field: 'pass' and the rest of
\* 'password123'.
TypedPasswords == { << "p", "a", "s", "s" >>, << "w", "o", "r", "d", "1", "2", "3" >> }

\* Faulty variant of IsEmail: every text that is not empty is accepted.
IsEmail_any(e) == e # <<>>

\* z.string().email(): one "@" with a local part before it, and after it a
\* domain of labels separated by ".", at least two of them, none empty.
IsEmail(e) ==
    /\ Cardinality({ k \in 1..Len(e) : e[k] = "@" }) = 1
    /\ LET at == CHOOSE k \in 1..Len(e) : e[k] = "@"
       IN  /\ at > 1
           /\ e[1] # "."
           /\ e[at - 1] # "."
           /\ at < Len(e)
           /\ e[at + 1] # "."
           /\ e[Len(e)] # "."
           /\ \E d \in (at + 1)..Len(e) : e[d] = "."
           /\ \A d \in 1..(Len(e) - 1) : ~(e[d] = "." /\ e[d + 1] = ".")

\* Faulty variant of MinPasswordLength: four more characters are required.
MinPasswordLength_twelve == 8 + 4

MinPasswordLength == 8

validateEmail(e) == IF IsEmail(e) THEN "" ELSE EmailMessage

validatePassword(p) == IF Len(p) >= MinPasswordLength THEN "" ELSE PasswordMessage

\* zodResolver(formSchema): the message of each field, "" for a valid one.
resolver(values) ==
    [email |-> validateEmail(values.email), password |-> validatePassword(values.password)]

\* Faulty variant of FormData: the password is not passed on.
FormData_emailOnly(f) == [email |-> f.email, password |-> <<>>]

\* The data handleSubmit passes to onSubmit: the values of the two fields.
FormData(f) == [email |-> f.email, password |-> f.password]

\* render(<LoginForm onSubmit={handleSubmit} />)
RenderForm ==
    /\ ~form.mounted
    /\ form' = [form EXCEPT !.mounted = TRUE]
    /\ UNCHANGED <<handleSubmit, dialog, handleConfirm, handleOpenChange, button, handleClick>>
    /\ UNCHANGED <<suite, phase, listening, onUnhandledRequest, currentHandlers,
                   requestCount, testNo, nUses, nRequests, overrides, setBeforeUse,
                   comps, last, customData>>
    /\ UNCHANGED <<asyncVars, storyVars>>

\* user.type(emailInput, t): t goes behind the text of the field, and the
\* field is validated (mode: 'onChange').
TypeEmail(t) ==
    /\ form.mounted
    /\ Len(form.email) + Len(t) <= MaxEmailLen
    /\ form' = [form EXCEPT !.email = @ \o t,
                            !.errors.email = validateEmail(form.email \o t)]
    /\ UNCHANGED <<handleSubmit, dialog, handleConfirm, handleOpenChange, button, handleClick>>
    /\ UNCHANGED <<suite, phase, listening, onUnhandledRequest, currentHandlers,
                   requestCount, testNo, nUses, nRequests, overrides, setBeforeUse,
                   comps, last, customData>>
    /\ UNCHANGED <<asyncVars, storyVars>>

\* user.type(passwordInput, t)
TypePassword(t) ==
    /\ form.mounted
    /\ Len(form.password) + Len(t) <= MaxPasswordLen
    /\ form' = [form EXCEPT !.password = @ \o t,
                            !.errors.password = validatePassword(form.password \o t)]
    /\ UNCHANGED <<handleSubmit, dialog, handleConfirm, handleOpenChange, button, handleClick>>
    /\ UNCHANGED <<suite, phase, listening, onUnhandledRequest, currentHandlers,
                   requestCount, testNo, nUses, nRequests, overrides, setBeforeUse,
                   comps, last, customData>>
    /\ UNCHANGED <<asyncVars, storyVars>>

\* user.clear(emailInput): a field that holds text is emptied and validated.
ClearEmail ==
    /\ form.mounted
    /\ form.email # <<>>
    /\ form' = [form EXCEPT !.email = <<>>, !.errors.email = validateEmail(<<>>),
                            !.cleared = @ \cup {"email"}]
    /\ UNCHANGED <<handleSubmit, dialog, handleConfirm, handleOpenChange, button, handleClick>>
    /\ UNCHANGED <<suite, phase, listening, onUnhandledRequest, currentHandlers,
                   requestCount, testNo, nUses, nRequests, overrides, setBeforeUse,
                   comps, last, customData>>
    /\ UNCHANGED <<asyncVars, storyVars>>

\* user.clear(passwordInput)
ClearPassword ==
    /\ form.mounted
    /\ form.password # <<>>
    /\ form' = [form EXCEPT !.password = <<>>, !.errors.password = validatePassword(<<>>),
                            !.cleared = @ \cup {"password"}]
    /\ UNCHANGED <<handleSubmit, dialog, handleConfirm, handleOpenChange, button, handleClick>>
    /\ UNCHANGED <<suite, phase, listening, onUnhandledRequest, currentHandlers,
                   requestCount, testNo, nUses, nRequests, overrides, setBeforeUse,
                   comps, last, customData>>
    /\ UNCHANGED <<asyncVars, storyVars>>

\* user.click(submitButton): form.handleSubmit(onSubmit) validates both
\* fields; it calls onSubmit when both are valid and shows the messages
\* otherwise.
Submit ==
    /\ form.mounted
    /\ form.submits < MaxSubmits
    /\ LET errs == resolver(form)
       IN  /\ form' = [form EXCEPT !.errors = errs, !.submits = @ + 1,
                                    !.cleared = IF errs.email = "" /\ errs.password = ""
                                                THEN @ ELSE {}]
           /\ handleSubmit' =
                  IF errs.email = "" /\ errs.password = ""
                  THEN Append(handleSubmit, FormData(form))
                  ELSE handleSubmit
    /\ UNCHANGED <<dialog, handleConfirm, handleOpenChange, button, handleClick>>
    /\ UNCHANGED <<suite, phase, listening, onUnhandledRequest, currentHandlers,
                   requestCount, testNo, nUses, nRequests, overrides, setBeforeUse,
                   comps, last, customData>>
    /\ UNCHANGED <<asyncVars, storyVars>>

TypeEmailAny == \E t \in TypedEmails : TypeEmail(t)

TypePasswordAny == \E t \in TypedPasswords : TypePassword(t)

InitLoginForm == Init /\ suite = "global"

NextLoginForm ==
    \/ RenderForm
    \/ TypeEmailAny
    \/ TypePasswordAny
    \/ ClearEmail
    \/ ClearPassword
    \/ Submit

SpecLoginForm == InitLoginForm /\ [][NextLoginForm]_vars

----------------------------------------------------------------------------
(* ConfirmDialog and Button. A dialog is rendered by a test, which passes  *)
(* open = true and its own mock functions, or by ConfirmDialogWithButton,  *)
(* which keeps the open state itself. handleConfirm counts the calls of    *)
(* the onConfirm function given from outside, handleOpenChange lists the   *)
(* arguments the dialog passed to its onOpenChange property, and           *)
(* handleClick counts the calls of the button's onClick.                   *)

MaxClicks == 3

DialogParents == { "test", "wrapper" }

\* Whether the confirm button also reports the closing of the dialog to
\* onOpenChange: the tests leave it open; both outcomes are taken.
ConfirmCloses == BOOLEAN

\* Faulty variant of wrapperConfirm: the dialog is closed and onConfirm is
\* not called.
wrapperConfirm_silent(d, n) == [dialog |-> [d EXCEPT !.open = FALSE], calls |-> n]

\* ConfirmDialogWithButton.handleConfirm: onConfirm(); setOpen(false).
wrapperConfirm(d, n) == [dialog |-> [d EXCEPT !.open = FALSE], calls |-> n + 1]

\* onOpenChange(v): setOpen(v) in ConfirmDialogWithButton; in a test the
\* property open stays as it was rendered.
setOpen(d, v) == IF d.parent = "wrapper" THEN [d EXCEPT !.open = v] ELSE d

\* render(<ConfirmDialog open={true} .../>) or <ConfirmDialogWithButton/>,
\* whose useState(false) keeps the dialog closed.
RenderDialog(p) ==
    /\ dialog.parent = "none"
    /\ dialog' = [dialog EXCEPT !.parent = p, !.open = (p = "test")]
    /\ UNCHANGED <<form, handleSubmit, handleConfirm, handleOpenChange, button, handleClick>>
    /\ UNCHANGED <<suite, phase, listening, onUnhandledRequest, currentHandlers,
                   requestCount, testNo, nUses, nRequests, overrides, setBeforeUse,
                   comps, last, customData>>
    /\ UNCHANGED <<asyncVars, storyVars>>

\* A click on the button of ConfirmDialogWithButton: setOpen(true).
OpenDialog ==
    /\ dialog.parent = "wrapper"
    /\ ~dialog.open
    /\ dialog' = [dialog EXCEPT !.open = TRUE]
    /\ UNCHANGED <<form, handleSubmit, handleConfirm, handleOpenChange, button, handleClick>>
    /\ UNCHANGED <<suite, phase, listening, onUnhandledRequest, currentHandlers,
                   requestCount, testNo, nUses, nRequests, overrides, setBeforeUse,
                   comps, last, customData>>
    /\ UNCHANGED <<asyncVars, storyVars>>

\* A click on the confirm button of an open dialog.
ConfirmClick(closes) ==
    /\ dialog.open
    /\ dialog.clicks < MaxClicks
    /\ LET d == [dialog EXCEPT !.clicks = @ + 1, !.clicked = "confirm"]
           c == IF closes THEN setOpen(d, FALSE) ELSE d
       IN  IF dialog.parent = "wrapper"
           THEN /\ dialog' = wrapperConfirm(c, handleConfirm).dialog
                /\ handleConfirm' = wrapperConfirm(c, handleConfirm).calls
           ELSE /\ dialog' = c
                /\ handleConfirm' = handleConfirm + 1
    /\ handleOpenChange' = IF closes THEN Append(handleOpenChange, FALSE) ELSE handleOpenChange
    /\ UNCHANGED <<form, handleSubmit, button, handleClick>>
    /\ UNCHANGED <<suite, phase, listening, onUnhandledRequest, currentHandlers,
                   requestCount, testNo, nUses, nRequests, overrides, setBeforeUse,
                   comps, last, customData>>
    /\ UNCHANGED <<asyncVars, storyVars>>

\* A click on the cancel button of an open dialog: onOpenChange(false).
CancelClick ==
    /\ dialog.open
    /\ dialog.clicks < MaxClicks
    /\ dialog' = setOpen([dialog EXCEPT !.clicks = @ + 1, !.clicked = "cancel"], FALSE)
    /\ handleOpenChange' = Append(handleOpenChange, FALSE)
    /\ UNCHANGED <<form, handleSubmit, handleConfirm, button, handleClick>>
    /\ UNCHANGED <<suite, phase, listening, onUnhandledRequest, currentHandlers,
                   requestCount, testNo, nUses, nRequests, overrides, setBeforeUse,
                   comps, last, customData>>
    /\ UNCHANGED <<asyncVars, storyVars>>

\* Faulty variant of fires: the click handler runs on a disabled button too.
fires_always(b) == TRUE

\* <button onClick={onClick} disabled={disabled}>: a disabled button
\* dispatches no click.
fires(b) == ~b.disabled

\* render(<Button onClick={handleClick} disabled={d}>)
RenderButton(d) ==
    /\ ~button.mounted
    /\ button' = [button EXCEPT !.mounted = TRUE, !.disabled = d]
    /\ UNCHANGED <<form, handleSubmit, dialog, handleConfirm, handleOpenChange, handleClick>>
    /\ UNCHANGED <<suite, phase, listening, onUnhandledRequest, currentHandlers,
                   requestCount, testNo, nUses, nRequests, overrides, setBeforeUse,
                   comps, last, customData>>
    /\ UNCHANGED <<asyncVars, storyVars>>

\* rerender(<Button onClick={handleClick} disabled={d}>)
Rerender(d) ==
    /\ button.mounted
    /\ button.disabled # d
    /\ button' = [button EXCEPT !.disabled = d]
    /\ UNCHANGED <<form, handleSubmit, dialog, handleConfirm, handleOpenChange, handleClick>>
    /\ UNCHANGED <<suite, phase, listening, onUnhandledRequest, currentHandlers,
                   requestCount, testNo, nUses, nRequests, overrides, setBeforeUse,
                   comps, last, customData>>
    /\ UNCHANGED <<asyncVars, storyVars>>

\* fireEvent.click(button)
Click ==
    /\ button.mounted
    /\ button.clicks < MaxClicks
    /\ button' = [button EXCEPT !.clicks = @ + 1]
    /\ handleClick' = IF fires(button) THEN handleClick + 1 ELSE handleClick
    /\ UNCHANGED <<form, handleSubmit, dialog, handleConfirm, handleOpenChange>>
    /\ UNCHANGED <<suite, phase, listening, onUnhandledRequest, currentHandlers,
                   requestCount, testNo, nUses, nRequests, overrides, setBeforeUse,
                   comps, last, customData>>
    /\ UNCHANGED <<asyncVars, storyVars>>

RenderDialogAny == \E p \in DialogParents : RenderDialog(p)

ConfirmClickAny == \E closes \in ConfirmCloses : ConfirmClick(closes)

RenderButtonAny == \E d \in BOOLEAN : RenderButton(d)

RerenderAny == \E d \in BOOLEAN : Rerender(d)

InitComponents == Init /\ suite = "global"

NextComponents ==
    \/ RenderDialogAny
    \/ OpenDialog
    \/ ConfirmClickAny
    \/ CancelClick
    \/ RenderButtonAny
    \/ RerenderAny
    \/ Click

SpecComponents == InitComponents /\ [][NextComponents]_vars

----------------------------------------------------------------------------
(* Claims *)

Range(f) == { f[i] : i \in 1..Len(f) }

SameRoute(h, req) == h.method = req.method /\ h.url = req.url

\* C1: every intercepted request is answered by the first handler, in the
\* order of the active list, whose method and route match it, with that
\* handler's response; a request is unanswered only when no handler matches.
C1_FirstMatchWins ==
    last.intercepted =>
        /\ last.by \in 0..Len(last.set)
        /\ last.by = 0 => \A i \in 1..Len(last.set) : ~SameRoute(last.set[i], last.req)
        /\ last.by > 0 =>
              /\ SameRoute(last.set[last.by], last.req)
              /\ \A j \in 1..(last.by - 1) : ~SameRoute(last.set[j], last.req)
              /\ last.handler = last.set[last.by]
              /\ last.resp = Resolve(last.set[last.by], last.count, customData)

\* A request was answered by the head of a list that holds a second handler
\* matching the same request.
C1_Witness ==
    /\ last.intercepted
    /\ last.by = 1
    /\ Len(last.set) >= 2
    /\ SameRoute(last.set[2], last.req)
    /\ last.set[2] # last.set[1]

\* C2: when a test starts (before its first server.use) the active handler
\* list is the default list given to setupServer, whatever earlier tests
\* installed.
C2_DefaultAtTestStart ==
    (phase = "test" /\ nUses = 0) =>
        currentHandlers[suite] = (IF suite = "global" THEN handlers ELSE localHandlers)

\* The second test has started after a first test whose override (the shared
\* conditional handler) answered a request.
C2_Witness ==
    /\ phase = "test"
    /\ testNo = 2
    /\ nUses = 0
    /\ requestCount["shared"] > 0

\* C3: once the running test has called server.use, a request that matches
\* one of its overrides is answered by an override of this test and not by a
\* handler of the default list.
C3_OverrideTakesPrecedence ==
    (/\ last.intercepted
     /\ \E k \in 1..last.nOv : SameRoute(overrides[k], last.req)) =>
        /\ last.by > 0
        /\ last.handler \in { overrides[k] : k \in 1..last.nOv }
        /\ last.handler \notin Range(handlers) \cup Range(localHandlers)

\* The server-error override answered a request of the running test.
C3_Witness ==
    /\ phase = "test"
    /\ last.nOv > 0
    /\ last.by > 0
    /\ last.handler.name = "serverError"
    /\ last.resp.status = 500

\* C4: a request that no handler of the active list matches is reported as
\* an error and is not passed to the network.
C4_UnmatchedIsError ==
    (last.req # NoRequest.req /\ last.by = 0) => (last.reported /\ ~last.passthrough)

\* A POST to a route without handler was issued and reported.
C4_Witness ==
    /\ last.req = [method |-> "POST", url |-> "/api/posts"]
    /\ last.by = 0
    /\ last.reported

\* C5 as stated: the reset that follows a server.use restores the handler
\* list that was active just before that (latest) server.use.
C5_ResetRestoresPrevious ==
    (phase = "idle" /\ nUses > 0) => currentHandlers[suite] = setBeforeUse

\* C5 amended: server.use always takes effect (the override is put in front
\* of the list that was active), and the reset that follows restores the
\* default list given to setupServer, which is the list from before the
\* server.use only when that was the test's first.
C5_ResetRestoresDefault ==
    /\ (phase = "test" /\ nUses > 0) =>
          currentHandlers[suite] = << overrides[nUses] >> \o setBeforeUse
    /\ (phase = "idle" /\ nUses > 0) =>
          /\ currentHandlers[suite] = (IF suite = "global" THEN handlers ELSE localHandlers)
          /\ nUses = 1 => currentHandlers[suite] = setBeforeUse

\* A test that called server.use twice has ended and its reset has run.
C5_Witness ==
    /\ phase = "idle"
    /\ nUses = 2
    /\ setBeforeUse # currentHandlers[suite]

C7_CounterSurvivesReset ==
    [][ /\ \A i \in Instances :
              requestCount'[i] < requestCount[i] =>
                  (i = "fresh" /\ phase = "idle" /\ phase' = "test")
        /\ (phase = "afterEach" /\ phase' = "idle") => requestCount' = requestCount
      ]_vars

\* In the second test the shared conditional handler answers that test's
\* first request as its second invocation, with the success payload.
C7_Witness ==
    /\ testNo = 2
    /\ nRequests = 1
    /\ last.handler.inst = "shared"
    /\ last.count = 2
    /\ Ok(last.resp)

\* C8: a conditional handler answers the first request it matches with 503
\* and every later one with the success payload, and each request answered
\* by an instance adds exactly one to that instance's counter.
C8_Inv ==
    (last.by > 0 /\ last.handler.name = "conditionalResponse") =>
        /\ last.count >= 1
        /\ last.count = requestCount[last.handler.inst]
        /\ last.count = 1 => last.resp = [kind |-> "response", status |-> 503, body |-> <<>>]
        /\ last.count > 1 =>
              (last.resp.status = 200 /\ last.resp.body = JSONstringify(mswMockUsers))

C8_Step ==
    \A i \in Instances :
        LET answered == /\ nRequests' = nRequests + 1
                        /\ last'.by > 0
                        /\ last'.handler.inst = i
            created == i = "fresh" /\ phase = "idle" /\ phase' = "test"
        IN  /\ answered => requestCount'[i] = requestCount[i] + 1
            /\ (~answered /\ ~created) => requestCount'[i] = requestCount[i]

C8_ConditionalHandler == [](C8_Inv) /\ [][C8_Step]_vars

\* A fresh instance answered two requests of one test: the second with 200.
C8_Witness ==
    /\ suite = "local"
    /\ phase = "test"
    /\ last.handler.inst = "fresh"
    /\ last.count = 2
    /\ last.resp.status = 200
    /\ requestCount["fresh"] = 2

\* The payload each JSON handler is given to return.
PayloadOf(name) ==
    CASE name = "default" -> mockUsers
      [] name = "localDefault" -> mswMockUsers
      [] name = "emptyResponse" -> <<>>
      [] name = "custom" -> customData
      [] OTHER -> <<>>

\* C9: when the handler that answers GET /api/users returns payload P, the
\* component that receives the response holds exactly P: same entries, same
\* order.
C9_RoundTrip ==
    \A i \in 1..Len(comps) :
        (comps[i].state = "success"
           /\ comps[i].handler \in {"default", "localDefault", "emptyResponse", "custom"}) =>
            comps[i].users = PayloadOf(comps[i].handler)

\* The custom handler returned a payload of two different entries and the
\* component holds it.
C9_Witness ==
    /\ Len(customData) = 2
    /\ customData[1] # customData[2]
    /\ Len(comps) = 1
    /\ comps[1].handler = "custom"
    /\ comps[1].state = "success"
    /\ comps[1].users = customData

\* C10: the transport-failure handler yields an outcome without status code;
\* the component whose request it answers shows the rejection's own message,
\* while a component answered with an HTTP error status shows
\* "Failed to fetch users", and the two lines differ.
C10_TransportFailureDistinct ==
    /\ (last.by > 0 /\ last.handler.name = "networkError") =>
          (last.resp.kind = "error" /\ last.resp.status = NoStatus
             /\ last.resp.status \notin 100..599)
    /\ \A i \in 1..Len(comps) :
          comps[i].state # "loading" =>
              /\ comps[i].handler = "networkError" =>
                    /\ comps[i].state = "error"
                    /\ ErrorText(comps[i]) = << ErrorPrefix, FailedToFetch >>
                    /\ ErrorText(comps[i]) # << ErrorPrefix, FailedToFetchUsers >>
              /\ comps[i].handler \in {"serverError", "notFound", "serviceUnavailable"} =>
                    /\ comps[i].state = "error"
                    /\ comps[i].resp.status \in 400..599
                    /\ ErrorText(comps[i]) = << ErrorPrefix, FailedToFetchUsers >>

\* A component answered by the transport-failure handler shows its error line.
C10_Witness ==
    /\ Len(comps) = 1
    /\ comps[1].handler = "networkError"
    /\ comps[1].state = "error"
    /\ comps[1].resp.kind = "error"

\* The status each HTTP-error handler is written to send.
ErrorStatusOf(name) ==
    CASE name = "serverError" -> 500
      [] name = "notFound" -> 404
      [] name = "serviceUnavailable" -> 503
      [] OTHER -> NoStatus

ErrorHandlerNames == {"serverError", "notFound", "serviceUnavailable"}

C11_Inv ==
    /\ (last.by > 0 /\ last.handler.name \in ErrorHandlerNames) =>
          /\ last.resp = [kind |-> "response", status |-> ErrorStatusOf(last.handler.name),
                          body |-> <<>>]
          /\ ~Ok(last.resp)
    /\ \A i \in 1..Len(comps) :
          comps[i].handler \in ErrorHandlerNames =>
              /\ comps[i].resp.kind = "response"
              /\ comps[i].resp.status = ErrorStatusOf(comps[i].handler)
              /\ comps[i].resp.status \notin 200..299
              /\ comps[i].state \in {"loading", "error"}
              /\ comps[i].users = <<>>
              /\ comps[i].state = "error" =>
                    ErrorText(comps[i]) = << ErrorPrefix, FailedToFetchUsers >>

\* The step in which a component receives its outcome sends no request and
\* invokes no handler.
C11_Step ==
    (\E i \in 1..Len(comps) :
        /\ Len(comps') = Len(comps)
        /\ comps[i].state = "loading"
        /\ comps'[i].state # "loading") =>
            (nRequests' = nRequests /\ last' = last /\ requestCount' = requestCount)

\* C11: a handler written to send 500, 404 or 503 answers with exactly that
\* status and no body, the component receives that same non-2xx response,
\* ends in its error state with the line "Failed to fetch users" and no
\* user entry, and receiving it sends no further request.
C11_ErrorStatusPropagates == [](C11_Inv) /\ [][C11_Step]_vars

\* The component answered by the server-error override shows its error line.
C11_Witness ==
    /\ Len(comps) = 1
    /\ comps[1].handler = "serverError"
    /\ comps[1].resp.status = 500
    /\ comps[1].state = "error"
    /\ nRequests = 1

\* The delay, in milliseconds, each delaying handler is configured with.
ConfiguredDelay(name) ==
    CASE name = "delayedResponse" -> 1000
      [] name = "customDelayedResponse" -> 500
      [] OTHER -> 0

\* C12: a handler configured with a fixed delay d has returned its response,
\* and the component has left its loading state, only when at least d
\* milliseconds have passed since the request was matched.
C12_NoResponseBeforeDelay ==
    /\ Len(pending) = Len(comps)
    /\ \A i \in 1..Len(pending) :
          /\ pending[i].handler = comps[i].handler
          /\ (pending[i].stage = "done" \/ comps[i].state # "loading") =>
                pending[i].elapsed >= ConfiguredDelay(pending[i].handler)
          /\ pending[i].elapsed < ConfiguredDelay(pending[i].handler) =>
                (pending[i].stage = "running" /\ comps[i].state = "loading")

\* The one-second handler has answered, one second after the request.
C12_Witness ==
    /\ Len(pending) = 1
    /\ pending[1].handler = "delayedResponse"
    /\ pending[1].stage = "done"
    /\ pending[1].elapsed = 1000
    /\ comps[1].state = "success"

\* C13: a component whose request is answered by the handler that awaits
\* delay('infinite') stays in its loading state, with its skeletons, no user
\* entry and no error line, however long the story is shown.
C13_InfiniteDelayNeverAnswers ==
    \A i \in 1..Len(comps) :
        comps[i].handler = "infiniteDelay" =>
            /\ pending[i].stage = "running"
            /\ ~pending[i].delay.finite
            /\ comps[i].state = "loading"
            /\ Skeletons(comps[i]) = SkeletonCount
            /\ comps[i].users = <<>>
            /\ ErrorText(comps[i]) = <<>>

\* The Loading story has been shown for at least a second.
C13_Witness ==
    /\ story.name = "Loading"
    /\ Len(comps) = 1
    /\ comps[1].handler = "infiniteDelay"
    /\ pending[1].elapsed >= 1000

C14_Inv ==
    \A i \in 1..Len(comps) :
        comps[i].handler = "customDelayedResponse" =>
            /\ pending[i].stage = "running" => comps[i].state = "loading"
            /\ comps[i].state = "loading" => Skeletons(comps[i]) = SkeletonCount
            /\ comps[i].state # "error"
            /\ comps[i].state = "success" =>
                  /\ pending[i].stage = "done"
                  /\ pending[i].elapsed = 500
                  /\ comps[i].users = mswMockUsers

C14_Loading(i) ==
    /\ Len(comps) >= i
    /\ comps[i].handler = "customDelayedResponse"
    /\ comps[i].state = "loading"

C14_Success(i) ==
    /\ Len(comps) >= i
    /\ comps[i].handler = "customDelayedResponse"
    /\ comps[i].state = "success"
    /\ comps[i].users = mswMockUsers

\* C14: a component answered by the 500 ms delayed-success handler is in
\* its loading state as long as the handler has not returned, never shows
\* an error, and, once loading, eventually shows the success payload, which
\* arrives 500 ms after the request.
C14_DelayedSuccess ==
    /\ [](C14_Inv)
    /\ \A i \in 1..MaxRequests : C14_Loading(i) ~> C14_Success(i)

\* The component answered by the 500 ms handler shows the success payload.
C14_Witness ==
    /\ Len(comps) = 1
    /\ comps[1].handler = "customDelayedResponse"
    /\ comps[1].state = "success"
    /\ pending[1].elapsed = 500

\* C15: when the request-capture handler has returned its response, and so
\* whenever the component has left its loading state, the callback has been
\* called with the request of this invocation: its method is GET and its
\* URL contains /api/users.
C15_CallbackBeforeResponse ==
    \A i \in 1..Len(comps) :
        (comps[i].handler = "requestCapture"
           /\ (comps[i].state # "loading" \/ pending[i].stage = "done")) =>
            /\ pending[i].calledBack
            /\ capturedRequest # null
            /\ capturedRequest = pending[i].request
            /\ capturedRequest.method = "GET"
            /\ toContain(capturedRequest.url, "/api/users")

\* The component answered by the request-capture handler shows the payload.
C15_Witness ==
    /\ Len(comps) = 1
    /\ comps[1].handler = "requestCapture"
    /\ comps[1].state = "success"
    /\ capturedRequest.method = "GET"

\* C16: with the server of src/mocks/server.ts and no server.use in the
\* running test, GET /api/users is answered by the default handler with
\* status 200 and the two entries of mockUsers, without any delay, and the
\* component that receives the answer holds both entries, names and e-mail
\* addresses.
C16_DefaultScenario ==
    /\ (suite = "global" /\ last.intercepted /\ last.nOv = 0
           /\ last.req = [method |-> "GET", url |-> "/api/users"]) =>
          /\ last.by = 1
          /\ last.handler.name = "default"
          /\ last.resp.kind = "response"
          /\ last.resp.status = 200
          /\ JSONparse(last.resp.body) = mockUsers
          /\ Len(JSONparse(last.resp.body)) = 2
    /\ \A i \in 1..Len(comps) :
          comps[i].handler = "default" =>
              /\ pending[i].delay = [finite |-> TRUE, ms |-> 0]
              /\ pending[i].elapsed = 0
              /\ comps[i].state \in {"loading", "success"}
              /\ comps[i].state = "success" =>
                    /\ Len(comps[i].users) = 2
                    /\ comps[i].users[1].name = "Yamada Taro"
                    /\ comps[i].users[1].email = "yamada@example.com"
                    /\ comps[i].users[2].name = "Suzuki Hanako"
                    /\ comps[i].users[2].email = "suzuki@example.com"

\* A test without override has rendered the component and the two entries
\* are shown.
C16_Witness ==
    /\ suite = "global"
    /\ nUses = 0
    /\ Len(comps) = 1
    /\ comps[1].handler = "default"
    /\ comps[1].state = "success"
    /\ comps[1].users = mockUsers

\* C17: the empty-list handler answers with status 200 and the JSON text of
\* an empty array; the component that receives the answer ends its loading
\* state with no skeleton, no user entry and no error line.
C17_EmptyList ==
    /\ (last.by > 0 /\ last.handler.name = "emptyResponse") =>
          /\ last.resp.kind = "response"
          /\ last.resp.status = 200
          /\ last.resp.body = << "[", "]" >>
          /\ JSONparse(last.resp.body) = <<>>
    /\ \A i \in 1..Len(comps) :
          (comps[i].handler = "emptyResponse" /\ comps[i].state # "loading") =>
              /\ comps[i].state = "success"
              /\ Skeletons(comps[i]) = 0
              /\ Len(comps[i].users) = 0
              /\ ErrorText(comps[i]) = <<>>

\* The component answered by the empty-list override has ended loading.
C17_Witness ==
    /\ Len(comps) = 1
    /\ comps[1].handler = "emptyResponse"
    /\ comps[1].resp.status = 200
    /\ comps[1].state = "success"
    /\ Skeletons(comps[1]) = 0

\* The overrides of the running test, latest first.
RECURSIVE Reversed(_)
Reversed(q) == IF q = <<>> THEN <<>> ELSE Reversed(Tail(q)) \o << Head(q) >>

C18_Inv ==
    LET default == IF suite = "global" THEN handlers ELSE localHandlers
    IN  /\ phase \in {"idle", "test", "afterEach"} => listening[suite]
        /\ nRequests > 0 => (phase \in {"test", "afterEach"} /\ last.intercepted)
        /\ phase = "closed" => (~listening[suite] /\ testNo > 0)
        /\ phase \in {"init", "idle", "closed"} =>
              (currentHandlers[suite] = default /\ overrides = <<>>)
        /\ phase \in {"test", "afterEach"} =>
              currentHandlers[suite] = Reversed(overrides) \o default

C18_Step ==
    LET default == IF suite = "global" THEN handlers ELSE localHandlers
    IN  /\ phase' # phase =>
              << phase, phase' >> \in { << "init", "idle" >>, << "idle", "test" >>,
                                       << "test", "afterEach" >>, << "afterEach", "idle" >>,
                                       << "idle", "closed" >> }
        /\ (phase = "init" /\ phase' = "idle") => (~listening[suite] /\ listening'[suite])
        /\ (phase = "afterEach" /\ phase' = "idle") => currentHandlers'[suite] = default
        /\ (phase = "idle" /\ phase' = "test") =>
              (listening[suite] /\ currentHandlers[suite] = default)
        /\ (phase = "idle" /\ phase' = "closed") => (listening[suite] /\ ~listening'[suite])
        /\ listening'[suite] # listening[suite] => phase' \in {"idle", "closed"}

\* C18: the server listens from before the first test to after the last
\* one; a test starts only from the idle position, with the default list
\* active, and ends into the afterEach hook, which restores the default
\* list before the next test can start; close comes from the idle position
\* after at least one test and nothing follows it; the default list is
\* always the tail of the active list, and overrides are in front of it
\* only from their server.use to the end of their test.
C18_LifecycleOrder == [](C18_Inv) /\ [][C18_Step]_vars

\* Two tests have run, the first with the shared conditional override
\* answering a request, and the server is closed.
C18_Witness ==
    /\ phase = "closed"
    /\ testNo = 2
    /\ requestCount["shared"] > 0
    /\ ~listening[suite]
    /\ currentHandlers[suite] = handlers

\* C19: while a story is shown the worker's list is exactly the story's own
\* handlers when it declares some, and the preview's handlers when it
\* declares none, whatever stories were shown before; the story's request
\* is answered from that list: by the story's own handler and not by the
\* default one in the first case, by the default handler in the second.
C19_StoryHandlers ==
    LET own == storyParameters(story.name)
    IN  story.name # "none" =>
            /\ own.defined => worker.handlers = own.handlers
            /\ ~own.defined => worker.handlers = handlers
            /\ last.intercepted =>
                  /\ last.set = worker.handlers
                  /\ last.by = 1
                  /\ own.defined =>
                        /\ last.handler = own.handlers[1]
                        /\ last.resp = Resolve(own.handlers[1], 0, customData)
                  /\ story.name = "Error" =>
                        (last.handler.name = "serverError" /\ last.resp.status = 500)
                  /\ ~own.defined =>
                        /\ last.handler.name = "default"
                        /\ last.resp.status = 200
                        /\ JSONparse(last.resp.body) = mockUsers
            /\ \A i \in 1..Len(comps) :
                  /\ story.name = "Error" => comps[i].state \in {"loading", "error"}
                  /\ ~own.defined =>
                        /\ comps[i].state \in {"loading", "success"}
                        /\ comps[i].state = "success" => comps[i].users = mockUsers

\* The story without msw parameter is shown right after the Error story
\* and its component holds the default payload.
C19_Witness ==
    /\ story = [name |-> "WithoutMsw", after |-> "Error"]
    /\ Len(comps) = 1
    /\ comps[1].handler = "default"
    /\ comps[1].state = "success"
    /\ comps[1].users = mockUsers

\* The invocations that have begun and not yet returned.
InProgress(ps) == { i \in 1..Len(ps) : ps[i].stage = "running" }

C20_Inv == Cardinality(InProgress(pending)) <= 1

C20_Step ==
    Len(pending') > Len(pending) =>
        /\ InProgress(pending) = {}
        /\ InProgress(pending') = { Len(pending') }

\* C20: within one test at most one handler invocation is in progress, and
\* an invocation begins only when every earlier one of the test, a delayed
\* one included, has returned its response.
C20_NoConcurrentInvocations == [](C20_Inv) /\ [][C20_Step]_vars

\* The second invocation of a test is in progress; the first one, which
\* awaited a delay of one second, has returned.
C20_Witness ==
    /\ phase = "test"
    /\ Len(pending) = 2
    /\ pending[1].handler = "delayedResponse"
    /\ pending[1].stage = "done"
    /\ pending[1].elapsed = 1000
    /\ pending[2].stage = "running"

\* C21: a mounted component whose request has not been answered yet is in
\* its loading state with exactly 3 skeletons, no user entry and no error
\* line; it is in that state exactly as long as the handler invocation is
\* in progress, and a component that has just mounted is in it.
C21_LoadingUntilDelivered ==
    /\ Len(comps) = Len(pending)
    /\ \A i \in 1..Len(comps) :
          /\ (pending[i].stage = "running") = (comps[i].state = "loading")
          /\ comps[i].state = "loading" =>
                /\ Skeletons(comps[i]) = 3
                /\ comps[i].users = <<>>
                /\ comps[i].error = ""
                /\ ErrorText(comps[i]) = <<>>
          /\ comps[i].state # "loading" => Skeletons(comps[i]) = 0

\* Half a second after the request the component answered by the
\* one-second handler still shows its skeletons.
C21_Witness ==
    /\ Len(comps) = 1
    /\ comps[1].handler = "delayedResponse"
    /\ pending[1].elapsed = 500
    /\ comps[1].state = "loading"
    /\ Skeletons(comps[1]) = 3

\* The e-mail address and the password the tests enter as valid values.
TestEmail == << "test", "@", "example", ".", "com" >>

TestPassword == << "p", "a", "s", "s", "w", "o", "r", "d", "1", "2", "3" >>

\* A step that submits the form.
Submitting == form'.submits = form.submits + 1

\* C22: when the form is submitted with a valid e-mail address and a
\* password of at least 8 characters, onSubmit is called exactly once more,
\* with exactly the e-mail address and the password that were entered.
C22_ValidSubmitCallsOnSubmit ==
    [][(Submitting /\ IsEmail(form.email) /\ Len(form.password) >= 8)
          => handleSubmit' = Append(handleSubmit,
                                    [email |-> form.email, password |-> form.password])]_vars

C22_Witness ==
    /\ form.submits = 1
    /\ handleSubmit = << [email |-> TestEmail, password |-> TestPassword] >>

\* An e-mail text without the sign "@".
NoAtSign(e) == \A k \in 1..Len(e) : e[k] # "@"

C24_RecoversAfterCorrection ==
    [][(/\ Submitting
        /\ form.submits >= 1
        /\ handleSubmit = <<>>
        /\ form.cleared = {"email", "password"}
        /\ form.email = TestEmail
        /\ Len(form.password) >= 8)
          => /\ handleSubmit' = << [email |-> form.email, password |-> form.password] >>
             /\ form'.errors = [email |-> "", password |-> ""]]_vars

C24_Witness ==
    /\ form.submits = 2
    /\ form.cleared = {"email", "password"}
    /\ handleSubmit = << [email |-> TestEmail, password |-> TestPassword] >>
    /\ form.errors = [email |-> "", password |-> ""]

\* C25: a click on the confirm button of an open ConfirmDialog calls
\* onConfirm exactly once; a click on the cancel button calls
\* onOpenChange(false) and does not call onConfirm.
C25_ConfirmAndCancel ==
    [][(dialog.open /\ dialog'.clicks = dialog.clicks + 1)
          => /\ dialog'.clicked = "confirm" => handleConfirm' = handleConfirm + 1
             /\ dialog'.clicked = "cancel"
                   => /\ handleConfirm' = handleConfirm
                      /\ handleOpenChange' = Append(handleOpenChange, FALSE)]_vars

C25_Witness ==
    /\ dialog.parent = "wrapper"
    /\ dialog.clicks = 2
    /\ dialog.clicked = "cancel"
    /\ ~dialog.open
    /\ handleConfirm = 1
    /\ handleOpenChange = << FALSE >>

\* C26: every click on an enabled Button calls onClick exactly once, and a
\* click on a disabled Button does not call it.
C26_ClickOncePerEnabledClick ==
    [][(button'.clicks = button.clicks + 1)
          => handleClick' = handleClick + (IF button.disabled THEN 0 ELSE 1)]_vars

C26_Witness ==
    /\ button.clicks = 3
    /\ button.disabled
    /\ handleClick = 2

\* Every mounted component is in one of the three states, shows users only
\* in success and an error only in error; and a test whose only request is
\* that of its one component, answered 503 by the conditional handler, keeps
\* the handler's counter at 1 and the error line on 'Failed to fetch users'.
C27_Inv ==
    \A i \in 1..Len(comps) :
        LET c == comps[i]
        IN  /\ c.state \in {"loading", "success", "error"}
            /\ c.state = "loading" => (c.users = <<>> /\ c.error = "")
            /\ c.state = "success" => (c.error = "" /\ ErrorText(c) = <<>>)
            /\ c.state = "error" => (c.users = <<>> /\ c.error # "")
            /\ (/\ Len(comps) = 1
                /\ nRequests = 1
                /\ c.handler = "conditionalResponse"
                /\ c.resp = HttpResponseStatus(503))
                  => /\ requestCount[last.handler.inst] = 1
                     /\ c.state = "error"
                           => ErrorText(c) = << ErrorPrefix, FailedToFetchUsers >>

\* While the mounted components stay mounted, a settled one does not change
\* (it never returns to loading), and the step that settles one sends no
\* request: the request records and the counters are as before.
C27_Step ==
    (Len(comps') = Len(comps))
        => \A i \in 1..Len(comps) :
              /\ comps[i].state # "loading" => comps'[i] = comps[i]
              /\ comps'[i] # comps[i]
                    => /\ comps'[i].state \in {"success", "error"}
                       /\ nRequests' = nRequests
                       /\ requestCount' = requestCount
                       /\ last' = last

\* C27: UserList sends one GET /api/users when it mounts and none later;
\* once the outcome is delivered it is in success or in error and stays
\* there; after a first 503 the request count stays 1.
C27_OneRequestNoRetry == [](C27_Inv) /\ [][C27_Step]_vars

C27_Witness ==
    /\ suite = "local"
    /\ Len(comps) = 1
    /\ comps[1].handler = "conditionalResponse"
    /\ comps[1].state = "error"
    /\ ErrorText(comps[1]) = << ErrorPrefix, FailedToFetchUsers >>
    /\ nRequests = 1
    /\ requestCount["fresh"] = 1

\* C28: a request that no handler of the worker matches, in the Storybook
\* preview and in the browser worker of development, is passed to the
\* network and is not reported; the options of the Node test server are the
\* ones that turn an unmatched request into a reported error.
C28_WorkerBypassesUnmatched ==
    /\ (worker.started /\ last.intercepted /\ last.by = 0)
          => /\ worker.env \in {"preview", "browser"}
             /\ last.passthrough
             /\ ~last.reported
             /\ last.resp = NoResponse
    /\ Unhandled(serverOptions.onUnhandledRequest).reported
    /\ ~Unhandled(serverOptions.onUnhandledRequest).passthrough

C28_Witness ==
    /\ worker.env = "preview"
    /\ story.name = "Error"
    /\ last.req = [method |-> "POST", url |-> "/api/posts"]
    /\ last.intercepted
    /\ last.by = 0
    /\ last.passthrough

\* C29: when the running test has registered two or more overrides, all for
\* the method and route of a request, the request is answered by the head
\* of the list, which is the override registered last: not by an override
\* registered before it and not by a handler of the default list.
C29_LatestOverrideWins ==
    (/\ last.intercepted
     /\ last.nOv >= 2
     /\ \A k \in 1..last.nOv : SameRoute(overrides[k], last.req)) =>
        /\ last.by = 1
        /\ last.handler = overrides[last.nOv]
        /\ last.set[1] = overrides[last.nOv]
        /\ last.set[2] = overrides[last.nOv - 1]
        /\ last.resp = Resolve(overrides[last.nOv], last.count, customData)

\* The server-error override, then the custom one: the custom one answers.
C29_Witness ==
    /\ phase = "test"
    /\ last.nOv = 2
    /\ overrides[1].name = "serverError"
    /\ overrides[2].name = "custom"
    /\ last.handler.name = "custom"
    /\ last.resp.status = 200

\* The names of the delaying handlers a test installs with server.use.
DelayingOverrides == { "delayedResponse", "customDelayedResponse", "requestCapture" }

\* A component whose request was matched to a delaying override receives,
\* when the invocation has returned, the response of that override (the
\* users of mswMockUsers), whatever the handler list is by then; a request
\* sent while the list is the initial one is answered by its first handler.
C30_Inv ==
    /\ \A i \in 1..Len(comps) :
          (comps[i].handler \in DelayingOverrides /\ pending[i].stage = "done")
              => /\ comps[i].resp = delayedResolver
                 /\ comps[i].state = "success"
                 /\ comps[i].users = mswMockUsers
    /\ (last.intercepted /\ last.set = InitialHandlers(suite)
           /\ last.req = [method |-> "GET", url |-> "/api/users"])
          => last.handler = InitialHandlers(suite)[1]

\* A reset in the body of a test leaves the invocations in progress, the
\* components and the request records as they are.
C30_Step ==
    (/\ phase = "test"
     /\ phase' = "test"
     /\ currentHandlers' # currentHandlers
     /\ currentHandlers'[suite] = InitialHandlers(suite))
        => /\ pending' = pending
           /\ comps' = comps
           /\ last' = last

\* C30: a request matched to an override and waiting in its delay is
\* answered with the response of that override even when the handler list
\* is reset meanwhile; only requests sent after the reset are answered from
\* the initial list.
C30_PendingKeepsOverride == [](C30_Inv) /\ [][C30_Step]_vars

\* One override was installed and reset while the first request waited in
\* it: the first component holds the override's users, the second, mounted
\* after the reset, those of the default handler.
C30_Witness ==
    /\ suite = "global"
    /\ phase = "test"
    /\ nUses = 1
    /\ currentHandlers[suite] = handlers
    /\ Len(comps) = 2
    /\ comps[1].handler = "delayedResponse"
    /\ comps[1].state = "success"
    /\ comps[1].users = mswMockUsers
    /\ comps[2].handler = "default"
    /\ comps[2].state = "success"
    /\ comps[2].users = mockUsers

====
